---- MODULE Spec2Model ----
(***************************************************************************)
(* FlameBridge scripts: generate_flame_mesh.py (config -> SimpleFLAME ->   *)
(* export_obj), simple_flame.py (loader, UV-template resolver, blendshape  *)
(* evaluator, OBJ writer) and the two JSON dump utilities.                 *)
(*                                                                         *)
(* Numbers are integers (float32 values are modelled by the integers they  *)
(* hold); a Python None is the empty sequence and a present value v is the *)
(* one-element sequence <<v>>.  numpy arrays are records                   *)
(* [shape |-> <<d0, d1, ..>>, el |-> nested sequences].                    *)
(***************************************************************************)
EXTENDS Integers, Sequences, FiniteSets, TLC

VARIABLES prog, pc, inp, flame, eval, outFile, dirCreated, exitStatus, err, printed

vars == <<prog, pc, inp, flame, eval, outFile, dirCreated, exitStatus, err, printed>>

\* ------------------------------------------------------------------ bounds

\* Longest list of face lines in an enumerated UV-template OBJ.
MaxTemplateFaces == 3

\* Longest shape_coeffs / expr_coeffs list enumerated in a config.
MaxCoeffLen == 2

\* ----------------------------------------------------------------- helpers

None == <<>>

Some(x) == <<x>>

IsNone(o) == Len(o) = 0

Get(o) == o[1]

RECURSIVE SeqsUpTo(_, _)
\* all sequences over S of length 0..n
SeqsUpTo(S, n) ==
    IF n = 0 THEN {<<>>}
    ELSE LET shorter == SeqsUpTo(S, n - 1)
         IN  shorter \cup {Append(s, x) : s \in {t \in shorter : Len(t) = n - 1}, x \in S}

Prefix(s, n) == [i \in 1..(IF n < Len(s) THEN n ELSE Len(s)) |-> s[i]]

RECURSIVE SumTo(_, _)
\* sum of f[1] .. f[n]
SumTo(f, n) == IF n = 0 THEN 0 ELSE SumTo(f, n - 1) + f[n]

\* ------------------------------------------------------- numpy array model

Array(shape, el) == [shape |-> shape, el |-> el]

ndim(a) == Len(a.shape)

\* a[:, :2] of a 2-D array
FirstTwoColumns(a) ==
    Array(<<a.shape[1], 2>>, [i \in 1..a.shape[1] |-> <<a.el[i][1], a.el[i][2]>>])

\* a[:2, :].T of a 2-D array
FirstTwoRowsTransposed(a) ==
    Array(<<a.shape[2], 2>>, [j \in 1..a.shape[2] |-> <<a.el[1][j], a.el[2][j]>>])

\* SimpleFLAME.__init__.process_uv_array: None, or a [V,2] array
process_uv_array(raw_uv, v_count) ==
    IF IsNone(raw_uv) THEN None
    ELSE LET uvs == Get(raw_uv)
         IN  IF ndim(uvs) # 2 THEN None
             ELSE IF uvs.shape[1] = v_count /\ uvs.shape[2] >= 2
                  THEN Some(FirstTwoColumns(uvs))
             ELSE IF uvs.shape[2] = v_count /\ uvs.shape[1] >= 2
                  THEN Some(FirstTwoRowsTransposed(uvs))
             ELSE None

\* --------------------------------------------------------- model container

Has(data, k) == k \in DOMAIN data

\* first present key of f / faces / triangles
FacesKey(data) ==
    IF Has(data, "f") THEN Some("f")
    ELSE IF Has(data, "faces") THEN Some("faces")
    ELSE IF Has(data, "triangles") THEN Some("triangles")
    ELSE None

\* first present key of uv / vt / texcoords
UvKey(data) ==
    IF Has(data, "uv") THEN Some("uv")
    ELSE IF Has(data, "vt") THEN Some("vt")
    ELSE IF Has(data, "texcoords") THEN Some("texcoords")
    ELSE None

NoArray == Array(<<0>>, <<>>)

LoadFailed(e) ==
    [err |-> e, v_template |-> NoArray, shapedirs |-> NoArray, faces |-> NoArray,
     uvs |-> None]

\* the dict / npz branches of SimpleFLAME.__init__: the required arrays and the
\* embedded UV candidate, or the KeyError of the first missing slot
ReadArrays(data) ==
    IF ~Has(data, "v_template") THEN LoadFailed("KeyError_v_template")
    ELSE IF ~Has(data, "shapedirs") THEN LoadFailed("KeyError_shapedirs")
    ELSE IF IsNone(FacesKey(data)) THEN LoadFailed("KeyError_faces")
    ELSE LET raw_uv == IF IsNone(UvKey(data)) THEN None
                       ELSE Some(data[Get(UvKey(data))])
         IN  [err |-> "none",
              v_template |-> data["v_template"],
              shapedirs |-> data["shapedirs"],
              faces |-> data[Get(FacesKey(data))],
              uvs |-> process_uv_array(raw_uv, data["v_template"].shape[1])]

\* the shapedirs test without the middle-axis comparison
ShapedirsAcceptedAnyMiddleAxis(shapedirs) == ndim(shapedirs) = 3

\* the rank / middle-axis test on shapedirs
ShapedirsAccepted(shapedirs) == ndim(shapedirs) = 3 /\ shapedirs.shape[2] = 3

\* ------------------------------------------------------ UV-template resolver

\* float(token) succeeds
IsFloat(tok) == tok.kind = "num"

\* pass 1: a "v x y z" line that is kept
IsVLine(line) ==
    /\ line.tag = "v"
    /\ Len(line.toks) >= 3
    /\ \A i \in 1..3 : IsFloat(line.toks[i])

\* pass 1: a "vt u v" line that is kept
IsVtLine(line) ==
    /\ line.tag = "vt"
    /\ Len(line.toks) >= 2
    /\ \A i \in 1..2 : IsFloat(line.toks[i])

\* pass 1: vt_list
VtList(lines) ==
    LET kept == SelectSeq(lines, IsVtLine)
    IN  [i \in 1..Len(kept) |-> <<kept[i].toks[1].val, kept[i].toks[2].val>>]

\* pass 1: len(v_positions)
VCountInObj(lines) == Len(SelectSeq(lines, IsVLine))

\* a corner token p.split("/") without a usable vt field
CornerLacksVt(corner) ==
    \/ Len(corner) < 2
    \/ corner[2].kind = "empty"
    \/ corner[2].kind # "int"

\* pass 2: vt_for_face of one "f" line (0-based vt indices; [] once a corner
\* has no vt or a vt that is no integer)
VtForFace(line) ==
    IF \E c \in 1..Len(line.toks) : CornerLacksVt(line.toks[c]) THEN <<>>
    ELSE [c \in 1..Len(line.toks) |-> line.toks[c][2].val - 1]

IsFLine(line) == line.tag = "f"

FaceKept(line) == Len(VtForFace(line)) >= 3

\* pass 2: face_vt_indices, the first three vt of every kept face line
FaceVtIndices(lines) ==
    LET kept == SelectSeq(SelectSeq(lines, IsFLine), FaceKept)
    IN  [i \in 1..Len(kept) |-> Prefix(VtForFace(kept[i]), 3)]

UvResult(vt, fvt, msgs) == [vt_coords |-> vt, face_vt_indices |-> fvt, msgs |-> msgs]

\* a face corner with an integer vt reference
CornerHasUv(corner) == Len(corner) >= 2 /\ corner[2].kind = "int"

\* over every corner of every face line that references vertex v (1-based)
\* with a vt inside the pool: the sum of weight(vt)
SumOverCornersOf(lines, v, weight(_)) ==
    LET fl == SelectSeq(lines, IsFLine)
        pool == Len(VtList(lines))
        term(corner) ==
            IF CornerHasUv(corner) /\ corner[1].val = v
               /\ corner[2].val >= 1 /\ corner[2].val <= pool
            THEN weight(corner[2].val) ELSE 0
    IN  SumTo([t \in 1..Len(fl) |->
                 SumTo([c \in 1..Len(fl[t].toks) |-> term(fl[t].toks[c])],
                       Len(fl[t].toks))],
              Len(fl))

\* number of UV-bearing corners that reference vertex v
UvHits(lines, v) ==
    LET one(vt) == 1
    IN  SumOverCornersOf(lines, v, one)

\* sum of component comp of the UVs attached to vertex v
UvSum(lines, v, comp) ==
    LET value(vt) == VtList(lines)[vt][comp]
    IN  SumOverCornersOf(lines, v, value)

\* a resolver that collapses the template UV to one averaged value per vertex
try_load_uv_averaged(obj, v_count_in_model, f_count_in_model) ==
    IF ~obj.isfile THEN UvResult(None, None, {"uv_template_not_found"})
    ELSE IF ~obj.readable THEN UvResult(None, None, {"uv_template_read_failed"})
    ELSE IF Len(VtList(obj.lines)) = 0
    THEN UvResult(None, None, {"uv_template_no_vt"})
    ELSE IF Len(FaceVtIndices(obj.lines)) # f_count_in_model
    THEN UvResult(None, None, {"uv_face_count_mismatch"})
    ELSE UvResult(Some([v \in 1..v_count_in_model |->
                          IF UvHits(obj.lines, v) = 0 THEN <<0, 0>>
                          ELSE <<UvSum(obj.lines, v, 1) \div UvHits(obj.lines, v),
                                 UvSum(obj.lines, v, 2) \div UvHits(obj.lines, v)>>]),
                  Some(FaceVtIndices(obj.lines)),
                  {"uv_template_loaded", "uv_missing_count"})

\* the resolver without its face-count comparison
try_load_uv_no_face_check(obj, v_count_in_model, f_count_in_model) ==
    IF ~obj.isfile THEN UvResult(None, None, {"uv_template_not_found"})
    ELSE IF ~obj.readable THEN UvResult(None, None, {"uv_template_read_failed"})
    ELSE LET warn == IF VCountInObj(obj.lines) # v_count_in_model
                     THEN {"uv_vertex_count_warning"} ELSE {}
         IN  IF Len(VtList(obj.lines)) = 0
             THEN UvResult(None, None, warn \cup {"uv_template_no_vt"})
             ELSE UvResult(Some(VtList(obj.lines)), Some(FaceVtIndices(obj.lines)),
                           warn \cup {"uv_template_loaded"})

\* the resolver without its empty-pool return
try_load_uv_keeps_empty_pool(obj, v_count_in_model, f_count_in_model) ==
    IF ~obj.isfile THEN UvResult(None, None, {"uv_template_not_found"})
    ELSE IF ~obj.readable THEN UvResult(None, None, {"uv_template_read_failed"})
    ELSE LET warn == IF VCountInObj(obj.lines) # v_count_in_model
                     THEN {"uv_vertex_count_warning"} ELSE {}
         IN  IF Len(FaceVtIndices(obj.lines)) # f_count_in_model
             THEN UvResult(None, None, warn \cup {"uv_face_count_mismatch"})
             ELSE UvResult(Some(VtList(obj.lines)), Some(FaceVtIndices(obj.lines)),
                           warn \cup {"uv_template_loaded"})

\* SimpleFLAME._try_load_uv_from_template_obj
try_load_uv_from_template_obj(obj, v_count_in_model, f_count_in_model) ==
    IF ~obj.isfile THEN UvResult(None, None, {"uv_template_not_found"})
    ELSE IF ~obj.readable THEN UvResult(None, None, {"uv_template_read_failed"})
    ELSE LET warn == IF VCountInObj(obj.lines) # v_count_in_model
                     THEN {"uv_vertex_count_warning"} ELSE {}
             vt_list == VtList(obj.lines)
             face_vt_indices == FaceVtIndices(obj.lines)
         IN  IF Len(vt_list) = 0
             THEN UvResult(None, None, warn \cup {"uv_template_no_vt"})
             ELSE IF Len(face_vt_indices) # f_count_in_model
             THEN UvResult(None, None, warn \cup {"uv_face_count_mismatch"})
             ELSE UvResult(Some(vt_list), Some(face_vt_indices),
                           warn \cup {"uv_template_loaded"})

\* ---------------------------------------------------------- SimpleFLAME()

NoFlame ==
    [v_template |-> NoArray, shapedirs |-> NoArray, faces |-> NoArray,
     uvs |-> None, vt_coords |-> None, face_vt_indices |-> None,
     num_shape |-> 0, num_expr |-> 0, num_shape_total |-> 0]

InitFailed(e) == [err |-> e, obj |-> NoFlame, msgs |-> {}]

\* the closing report of __init__ on the UV source it ended with
UvReport(uvs, uv) ==
    IF ~IsNone(uvs) THEN "per_vertex_uv_loaded"
    ELSE IF ~IsNone(uv.vt_coords) /\ ~IsNone(uv.face_vt_indices)
         THEN "per_face_vertex_uv_loaded"
    ELSE "no_uv"

\* the template is read whenever a path is supplied
ResolveTemplateUvAlways(uvs, uv_template_obj_path, v_template, faces) ==
    IF ~IsNone(uv_template_obj_path)
    THEN try_load_uv_from_template_obj(Get(uv_template_obj_path),
                                       v_template.shape[1], faces.shape[1])
    ELSE UvResult(None, None, {})

\* the template is read only when the container gave no usable UV
ResolveTemplateUv(uvs, uv_template_obj_path, v_template, faces) ==
    IF IsNone(uvs) /\ ~IsNone(uv_template_obj_path)
    THEN try_load_uv_from_template_obj(Get(uv_template_obj_path),
                                       v_template.shape[1], faces.shape[1])
    ELSE UvResult(None, None, {})

\* SimpleFLAME.__init__(flame_model_path, num_shape, num_expr, uv_template_obj_path)
SimpleFLAME_init(flame_model_path, num_shape, num_expr, uv_template_obj_path) ==
    IF ~flame_model_path.isfile THEN InitFailed("FileNotFoundError")
    ELSE IF flame_model_path.ext \notin {".npz", ".pkl"}
    THEN InitFailed("ValueError_format")
    ELSE LET a == ReadArrays(flame_model_path.data)
         IN  IF a.err # "none" THEN InitFailed(a.err)
             ELSE IF ~ShapedirsAccepted(a.shapedirs)
             THEN InitFailed("ValueError_shapedirs")
             ELSE IF num_shape + num_expr > a.shapedirs.shape[3]
             THEN InitFailed("ValueError_budget")
             ELSE LET uv == ResolveTemplateUv(a.uvs, uv_template_obj_path,
                                              a.v_template, a.faces)
                  IN  [err |-> "none",
                       obj |-> [v_template |-> a.v_template,
                                shapedirs |-> a.shapedirs,
                                faces |-> a.faces,
                                uvs |-> a.uvs,
                                vt_coords |-> uv.vt_coords,
                                face_vt_indices |-> uv.face_vt_indices,
                                num_shape |-> num_shape,
                                num_expr |-> num_expr,
                                num_shape_total |-> a.shapedirs.shape[3]],
                       msgs |-> uv.msgs \cup {UvReport(a.uvs, uv)}]

\* ------------------------------------------------------ compute_vertices

Zeros(n) == [k \in 1..n |-> 0]

\* betas[start : start + len(vals)] = vals  (start is 0-based)
SliceAssign(betas, start, vals) ==
    [k \in 1..Len(betas) |->
        IF k > start /\ k <= start + Len(vals) THEN vals[k - start] ELSE betas[k]]

\* the coefficient vector with the expression block written from slot 0
BetasExprFromZero(self, shape_coeffs, expr_coeffs) ==
    LET b0 == Zeros(self.num_shape_total)
        b1 == IF IsNone(shape_coeffs) THEN b0 ELSE SliceAssign(b0, 0, Get(shape_coeffs))
    IN  IF IsNone(expr_coeffs) THEN b1 ELSE SliceAssign(b1, 0, Get(expr_coeffs))

\* the coefficient vector compute_vertices builds from accepted arguments
Betas(self, shape_coeffs, expr_coeffs) ==
    LET b0 == Zeros(self.num_shape_total)
        b1 == IF IsNone(shape_coeffs) THEN b0 ELSE SliceAssign(b0, 0, Get(shape_coeffs))
    IN  IF IsNone(expr_coeffs) THEN b1
        ELSE SliceAssign(b1, self.num_shape, Get(expr_coeffs))

\* np.tensordot(shapedirs, betas, axes=[2, 0])[i][a]
Blend(shapedirs, betas, i, a) ==
    SumTo([k \in 1..Len(betas) |-> shapedirs.el[i][a][k] * betas[k]], Len(betas))

\* v + blend cannot be formed: v is [V,c] and blend [V',3] (of the shapes
\* numpy would still broadcast, one axis of length 1, none is enumerated)
BroadcastError(vshape, shapedirs_shape) ==
    vshape[1] # shapedirs_shape[1] \/ vshape[2] # 3

\* compute_vertices without its two length tests
compute_vertices_unchecked(self, shape_coeffs, expr_coeffs) ==
    LET betas == Betas(self, shape_coeffs, expr_coeffs)
        v == self.v_template
    IN  [err |-> "none",
         v |-> Array(v.shape,
                     [i \in 1..v.shape[1] |->
                        [a \in 1..3 |-> v.el[i][a] + Blend(self.shapedirs, betas, i, a)]])]

\* SimpleFLAME.compute_vertices: the length error, or the deformed vertices
compute_vertices(self, shape_coeffs, expr_coeffs) ==
    IF ~IsNone(shape_coeffs) /\ Len(Get(shape_coeffs)) > self.num_shape
    THEN [err |-> "ValueError_shape_length", v |-> NoArray]
    ELSE IF ~IsNone(expr_coeffs) /\ Len(Get(expr_coeffs)) > self.num_expr
    THEN [err |-> "ValueError_expr_length", v |-> NoArray]
    ELSE LET betas == Betas(self, shape_coeffs, expr_coeffs)
             v == self.v_template
         IN  IF \E k \in 1..Len(betas) : betas[k] # 0
             THEN IF BroadcastError(v.shape, self.shapedirs.shape)
                  THEN [err |-> "ValueError_broadcast", v |-> NoArray]
                  ELSE [err |-> "none",
                        v |-> Array(v.shape,
                                    [i \in 1..v.shape[1] |->
                                       [a \in 1..3 |->
                                          v.el[i][a] + Blend(self.shapedirs, betas, i, a)]])]
             ELSE [err |-> "none", v |-> v]

\* ------------------------------------------------------- vertex normals

Sub(p, q) == [a \in 1..Len(p) |-> p[a] - q[a]]

\* np.cross(e1, e2) as it is added to a row of n_accum: the 3-vector, or for
\* two 2-vectors the scalar z component, which += broadcasts over the row
Cross(e1, e2) ==
    IF Len(e1) = 3
    THEN <<e1[2] * e2[3] - e1[3] * e2[2],
           e1[3] * e2[1] - e1[1] * e2[3],
           e1[1] * e2[2] - e1[2] * e2[1]>>
    ELSE LET z == e1[1] * e2[2] - e1[2] * e2[1]
         IN  <<z, z, z>>

\* numpy index i into an axis of length n, 1-based here (negative i wraps)
NpIndex(i, n) == IF i < 0 THEN i + n + 1 ELSE i + 1

\* indexing an axis of length n with i raises IndexError
NpIndexError(i, n) == i >= n \/ i < -n

FaceIndexError(faces, v_count) ==
    \E t \in 1..faces.shape[1] : \E c \in 1..3 : NpIndexError(faces.el[t][c], v_count)

RECURSIVE AccumulateNormals(_, _, _)
\* n_accum after the first t triangles
AccumulateNormals(vertices, faces, t) ==
    IF t = 0 THEN [i \in 1..vertices.shape[1] |-> <<0, 0, 0>>]
    ELSE LET acc == AccumulateNormals(vertices, faces, t - 1)
             tri == faces.el[t]
             i0 == NpIndex(tri[1], vertices.shape[1])
             i1 == NpIndex(tri[2], vertices.shape[1])
             i2 == NpIndex(tri[3], vertices.shape[1])
             n == Cross(Sub(vertices.el[i1], vertices.el[i0]),
                        Sub(vertices.el[i2], vertices.el[i0]))
             hits(i) == (IF i = i0 THEN 1 ELSE 0) + (IF i = i1 THEN 1 ELSE 0)
                        + (IF i = i2 THEN 1 ELSE 0)
         IN  [i \in 1..vertices.shape[1] |->
                <<acc[i][1] + hits(i) * n[1], acc[i][2] + hits(i) * n[2],
                  acc[i][3] + hits(i) * n[3]>>]

\* the squared length n_accum[i] is divided by the root of (1 for a zero vector)
Norm2(n) ==
    LET s == n[1] * n[1] + n[2] * n[2] + n[3] * n[3]
    IN  IF s = 0 THEN 1 ELSE s

\* n_accum / norms: each normal is kept as its vector and the squared divisor
VertexNormals(vertices, faces) ==
    LET acc == AccumulateNormals(vertices, faces, faces.shape[1])
    IN  [i \in 1..vertices.shape[1] |-> [n |-> acc[i], norm2 |-> Norm2(acc[i])]]

\* ----------------------------------------------------------- export_obj

use_template_uv(self) ==
    /\ ~IsNone(self.vt_coords)
    /\ ~IsNone(self.face_vt_indices)
    /\ Len(Get(self.face_vt_indices)) = self.faces.shape[1]

use_per_vertex_uv(self, v_count) ==
    /\ ~IsNone(self.uvs)
    /\ Get(self.uvs).shape[1] = v_count

VertexLines(vertices) ==
    [i \in 1..vertices.shape[1] |-> [kind |-> "v", c |-> vertices.el[i]]]

UvLines(self, v_count) ==
    IF use_template_uv(self)
    THEN [i \in 1..Len(Get(self.vt_coords)) |->
            [kind |-> "vt", c |-> Get(self.vt_coords)[i]]]
    ELSE IF use_per_vertex_uv(self, v_count)
    THEN [i \in 1..Get(self.uvs).shape[1] |->
            [kind |-> "vt", c |-> Get(self.uvs).el[i]]]
    ELSE <<>>

NormalLines(normals) ==
    [i \in 1..Len(normals) |->
        [kind |-> "vn",
         c |-> <<normals[i].n[1], normals[i].n[2], normals[i].n[3], normals[i].norm2>>]]

\* one face corner "v/vt/vn" (vt present) or "v//vn" (vt None), 1-based
Corner(v, vt, vn) == [v |-> v, vt |-> vt, vn |-> vn]

\* face lines whose template branch writes the stored 0-based UV index as is
FaceLinesZeroBasedUv(self, v_count) ==
    [t \in 1..self.faces.shape[1] |->
        LET tri == self.faces.el[t]
        IN  [kind |-> "f",
             c |-> [k \in 1..3 |->
                      IF use_template_uv(self)
                      THEN Corner(tri[k] + 1,
                                  Some(Get(self.face_vt_indices)[t][k]),
                                  tri[k] + 1)
                      ELSE IF use_per_vertex_uv(self, v_count)
                      THEN Corner(tri[k] + 1, Some(tri[k] + 1), tri[k] + 1)
                      ELSE Corner(tri[k] + 1, None, tri[k] + 1)]]]

FaceLines(self, v_count) ==
    [t \in 1..self.faces.shape[1] |->
        LET tri == self.faces.el[t]
        IN  [kind |-> "f",
             c |-> [k \in 1..3 |->
                      IF use_template_uv(self)
                      THEN Corner(tri[k] + 1,
                                  Some(Get(self.face_vt_indices)[t][k] + 1),
                                  tri[k] + 1)
                      ELSE IF use_per_vertex_uv(self, v_count)
                      THEN Corner(tri[k] + 1, Some(tri[k] + 1), tri[k] + 1)
                      ELSE Corner(tri[k] + 1, None, tri[k] + 1)]]]

\* a writer that emits the normals ahead of the UV lines
ObjLinesNormalsBeforeUv(self, vertices, normals) ==
    VertexLines(vertices) \o NormalLines(normals)
        \o UvLines(self, vertices.shape[1]) \o FaceLines(self, vertices.shape[1])

\* everything the "with open(path, 'w')" block writes, in order
ObjLines(self, vertices, normals) ==
    VertexLines(vertices) \o UvLines(self, vertices.shape[1])
        \o NormalLines(normals) \o FaceLines(self, vertices.shape[1])

\* ------------------------------------------------- generate_flame_mesh.main

DefaultNumShape == 300

DefaultNumExpr == 100

CfgGet(cfg, k, default) == IF Has(cfg, k) THEN cfg[k] ELSE default

\* cfg.get(k, None) of an optional value
CfgOpt(cfg, k) == IF Has(cfg, k) THEN Some(cfg[k]) ELSE None

\* the first fatal condition main meets before it builds the model, or "none"
ConfigError(argv, config) ==
    IF Len(argv) < 2 THEN "usage"
    ELSE IF ~config.isfile THEN "config_not_found"
    ELSE IF ~Has(config.json, "flame_model_path") THEN "KeyError_flame_model_path"
    ELSE IF ~Has(config.json, "out_obj_path") THEN "KeyError_out_obj_path"
    ELSE "none"

\* what main prints for a fatal condition: its own message before sys.exit(1),
\* or the interpreter's traceback of an uncaught exception
ErrorMessage(e) ==
    IF e = "usage" THEN "usage"
    ELSE IF e \in {"config_not_found", "npz_not_found", "npz_key_missing",
                   "npz_bad_shape", "npy_not_found"} THEN e
    ELSE "traceback"

TypeOK ==
    /\ pc \in {"start", "configured", "constructed", "evaluated", "done", "failed"}
    /\ exitStatus \in {-1, 0, 1}
    /\ dirCreated \in BOOLEAN
    /\ outFile.exists \in BOOLEAN

Fail(e) ==
    /\ pc' = "failed"
    /\ err' = e
    /\ exitStatus' = 1
    /\ printed' = printed \cup {ErrorMessage(e)}

\* main up to the SimpleFLAME(...) call: argument check, config file, config keys
GenerateMain ==
    /\ prog = "generate_flame_mesh"
    /\ pc = "start"
    /\ LET e == ConfigError(inp.argv, inp.config)
       IN  IF e # "none" THEN Fail(e)
           ELSE /\ pc' = "configured"
                /\ printed' = printed \cup {"using_flame_model"}
                /\ UNCHANGED <<err, exitStatus>>
    /\ UNCHANGED <<prog, inp, flame, eval, outFile, dirCreated>>

\* flame = SimpleFLAME(flame_model_path, num_shape, num_expr, uv_template_obj_path)
Construct ==
    /\ prog = "generate_flame_mesh"
    /\ pc = "configured"
    /\ LET cfg == inp.config.json
           r == SimpleFLAME_init(cfg["flame_model_path"],
                                 CfgGet(cfg, "num_shape", DefaultNumShape),
                                 CfgGet(cfg, "num_expr", DefaultNumExpr),
                                 CfgOpt(cfg, "uv_template_obj_path"))
       IN  IF r.err # "none" THEN Fail(r.err) /\ UNCHANGED flame
           ELSE /\ flame' = r.obj
                /\ pc' = "constructed"
                /\ printed' = printed \cup r.msgs
                /\ UNCHANGED <<err, exitStatus>>
    /\ UNCHANGED <<prog, inp, eval, outFile, dirCreated>>

NoEval == [vertices |-> NoArray, normals |-> <<>>]

\* export_obj up to os.makedirs: compute_vertices and the normals
ExportEvaluate ==
    /\ prog = "generate_flame_mesh"
    /\ pc = "constructed"
    /\ LET cfg == inp.config.json
           r == compute_vertices(flame, CfgOpt(cfg, "shape_coeffs"),
                                 CfgOpt(cfg, "expr_coeffs"))
       IN  IF r.err # "none" THEN Fail(r.err) /\ UNCHANGED eval
           ELSE IF FaceIndexError(flame.faces, r.v.shape[1])
           THEN Fail("IndexError") /\ UNCHANGED eval
           ELSE /\ eval' = [vertices |-> r.v,
                            normals |-> VertexNormals(r.v, flame.faces)]
                /\ pc' = "evaluated"
                /\ UNCHANGED <<err, exitStatus, printed>>
    /\ UNCHANGED <<prog, inp, flame, outFile, dirCreated>>

\* formatting the first "v" line raises IndexError: there is a vertex and its
\* row has no v[2]
VertexRowTooShort(vertices) == vertices.shape[1] >= 1 /\ Len(vertices.el[1]) < 3

\* export_obj from os.makedirs on: the file is opened for writing (created or
\* truncated) and every line is written; main then prints "Done".  A vertex
\* row without a third component stops the writer at its first line, after the
\* file was opened.
ExportWrite ==
    /\ prog = "generate_flame_mesh"
    /\ pc = "evaluated"
    /\ dirCreated' = TRUE
    /\ IF VertexRowTooShort(eval.vertices)
       THEN /\ outFile' = [exists |-> TRUE, writer |-> "export_obj", lines |-> <<>>]
            /\ Fail("IndexError_write")
       ELSE /\ outFile' = [exists |-> TRUE, writer |-> "export_obj",
                           lines |-> ObjLines(flame, eval.vertices, eval.normals)]
            /\ pc' = "done"
            /\ exitStatus' = 0
            /\ printed' = printed \cup {"saved_obj", "done"}
                            \cup (IF use_template_uv(flame)
                                     \/ use_per_vertex_uv(flame, eval.vertices.shape[1])
                                  THEN {} ELSE {"exported_without_uv"})
            /\ UNCHANGED err
    /\ UNCHANGED <<prog, inp, flame, eval>>

\* ------------------------------------- dump_mediapipe_embedding_to_json.main

RequiredKeys == <<"lmk_face_idx", "lmk_b_coords", "landmark_indices">>

\* the first fatal condition of the dump utility, or "none"
DumpError(argv, npz) ==
    IF Len(argv) < 3 THEN "usage"
    ELSE IF ~npz.isfile THEN "npz_not_found"
    ELSE IF \E i \in 1..Len(RequiredKeys) : ~Has(npz.data, RequiredKeys[i])
    THEN "npz_key_missing"
    ELSE IF \/ npz.data["lmk_b_coords"].shape[1] # npz.data["lmk_face_idx"].shape[1]
            \/ npz.data["lmk_b_coords"].shape[2] # 3
    THEN "npz_bad_shape"
    ELSE "none"

\* the payload written as JSON (tolist() of each array)
DumpPayload(data) ==
    [num_landmarks |-> data["lmk_face_idx"].shape[1],
     lmk_face_idx |-> data["lmk_face_idx"].el,
     lmk_b_coords |-> data["lmk_b_coords"].el,
     landmark_indices |-> data["landmark_indices"].el]

DumpMediapipeMain ==
    /\ prog = "dump_mediapipe_embedding_to_json"
    /\ pc = "start"
    /\ LET e == DumpError(inp.argv, inp.npz)
       IN  IF e # "none" THEN Fail(e) /\ UNCHANGED <<outFile, dirCreated>>
           ELSE /\ dirCreated' = TRUE
                /\ outFile' = [exists |-> TRUE, writer |-> "dump_mediapipe",
                               lines |-> <<DumpPayload(inp.npz.data)>>]
                /\ pc' = "done"
                /\ exitStatus' = 0
                /\ printed' = printed \cup {"saved_json"}
                /\ UNCHANGED err
    /\ UNCHANGED <<prog, inp, flame, eval>>

\* ------------------------------------- export_flame_landmarks_to_json.main

LandmarkKeys ==
    <<"static_lmk_faces_idx", "static_lmk_bary_coords", "dynamic_lmk_faces_idx",
      "dynamic_lmk_bary_coords", "full_lmk_faces_idx", "full_lmk_bary_coords">>

\* payload: the landmark keys the file holds, in order, each as a list
LandmarkPayload(data) ==
    LET present(k) == Has(data, k)
        keys == SelectSeq(LandmarkKeys, present)
    IN  [i \in 1..Len(keys) |-> <<keys[i], data[keys[i]].el>>]

\* a missing landmark_embedding.npy is reported and main returns: the
\* interpreter then ends with status 0
ExportLandmarksMain ==
    /\ prog = "export_flame_landmarks_to_json"
    /\ pc = "start"
    /\ IF ~inp.npy.isfile
       THEN /\ printed' = printed \cup {"npy_not_found"}
            /\ err' = "npy_not_found"
            /\ pc' = "done"
            /\ exitStatus' = 0
            /\ UNCHANGED outFile
       ELSE /\ printed' = printed \cup {"written_json"}
            /\ outFile' = [exists |-> TRUE, writer |-> "export_flame_landmarks",
                           lines |-> <<LandmarkPayload(inp.npy.data)>>]
            /\ pc' = "done"
            /\ exitStatus' = 0
            /\ UNCHANGED err
    /\ UNCHANGED <<prog, inp, flame, eval, dirCreated>>

\* ----------------------------------------------------------------- inputs
\* The files and arguments a run starts from.  Every enumerated container is
\* one the loader can be handed; values are small and pairwise different so
\* that a swapped source shows.

ModelSizes == {3, 4}

TemplateRows == << <<0, 0, 0>>, <<1, 0, 0>>, <<0, 1, 0>>, <<1, 1, 1>>, <<2, 0, 1>> >>

\* v_template with V rows of `cols` components (3 in a well-formed model)
VTemplate(V, cols) == Array(<<V, cols>>, [i \in 1..V |-> Prefix(TemplateRows[i], cols)])

ModelFaces(V) ==
    IF V = 3 THEN Array(<<1, 3>>, << <<0, 1, 2>> >>)
    ELSE Array(<<2, 3>>, << <<0, 1, 2>>, <<0, 2, 3>> >>)

BasisValue(i, a, k) == ((i + 2 * a + 3 * k) % 5) - 2

Shapedirs3D(V, A, N) ==
    Array(<<V, A, N>>, [i \in 1..V |-> [a \in 1..A |-> [k \in 1..N |-> BasisValue(i, a, k)]]])

ShapedirsFlat(V, N) ==
    Array(<<V * 3, N>>, [r \in 1..(V * 3) |-> [k \in 1..N |-> BasisValue(r, 0, k)]])

ShapedirsLayouts == {"Vx3xN", "V3xN", "Vx2xN", "N"}

ShapedirsOf(layout, V, N) ==
    IF layout = "Vx3xN" THEN Shapedirs3D(V, 3, N)
    ELSE IF layout = "V3xN" THEN ShapedirsFlat(V, N)
    ELSE IF layout = "Vx2xN" THEN Shapedirs3D(V, 2, N)
    ELSE Array(<<N>>, [k \in 1..N |-> BasisValue(1, 1, k)])

UvVariants == {"none", "Vx2", "Vx3", "2xV", "3xV", "V1x2", "V"}

EmbeddedUv(variant, V) ==
    IF variant = "Vx2" THEN Array(<<V, 2>>, [i \in 1..V |-> <<10 + i, 20 + i>>])
    ELSE IF variant = "Vx3" THEN Array(<<V, 3>>, [i \in 1..V |-> <<10 + i, 20 + i, 99>>])
    ELSE IF variant = "2xV"
    THEN Array(<<2, V>>, <<[j \in 1..V |-> 10 + j], [j \in 1..V |-> 20 + j]>>)
    ELSE IF variant = "3xV"
    THEN Array(<<3, V>>, <<[j \in 1..V |-> 10 + j], [j \in 1..V |-> 20 + j],
                           [j \in 1..V |-> 99]>>)
    ELSE IF variant = "V1x2"
    THEN Array(<<V + 1, 2>>, [i \in 1..(V + 1) |-> <<10 + i, 20 + i>>])
    ELSE Array(<<V>>, [i \in 1..V |-> 10 + i])

\* an optional dict entry
Entry(k, o) == IF IsNone(o) THEN <<>> ELSE (k :> Get(o))

\* a model container: v_template (rows of `cols` components), shapedirs, the
\* triangles under facesKey and the UV candidate under uvKey; `drop` names a
\* required slot left out
Container(V, cols, N, layout, facesKey, uvKey, uvVariant, drop) ==
    Entry("v_template", IF drop = "v_template" THEN None ELSE Some(VTemplate(V, cols)))
    @@ Entry("shapedirs", IF drop = "shapedirs" THEN None
                          ELSE Some(ShapedirsOf(layout, V, N)))
    @@ Entry(facesKey, IF drop = "faces" THEN None ELSE Some(ModelFaces(V)))
    @@ Entry(uvKey, IF uvVariant = "none" THEN None ELSE Some(EmbeddedUv(uvVariant, V)))

ModelPath(isfile, ext, data) == [isfile |-> isfile, ext |-> ext, data |-> data]

Num(x) == [kind |-> "num", val |-> x]

IntTok(x) == [kind |-> "int", val |-> x]

EmptyTok == [kind |-> "empty", val |-> 0]

BadTok == [kind |-> "bad", val |-> 0]

ObjLine(tag, toks) == [tag |-> tag, toks |-> toks]

\* n "v x y z" lines
ObjVLines(n) == [i \in 1..n |-> ObjLine("v", <<Num(i), Num(0), Num(1)>>)]

\* the UV pool: n "vt u v" lines
ObjVtLines(n) == [i \in 1..n |-> ObjLine("vt", <<Num(50 + i), Num(60 + i)>>)]

\* lines both passes skip: a comment, a "v" with a non-number, a short "vt"
ObjJunkLines ==
    <<ObjLine("#", <<>>), ObjLine("v", <<Num(1), BadTok, Num(1)>>),
      ObjLine("vt", <<Num(7)>>), ObjLine("vt", <<BadTok, Num(7)>>)>>

\* corner tokens after split("/"):  v/vt,  v/vt/vn,  v,  v//vn,  v/x
CornerVT(v, vt) == <<IntTok(v), IntTok(vt)>>

CornerVTN(v, vt, vn) == <<IntTok(v), IntTok(vt), IntTok(vn)>>

CornerV(v) == <<IntTok(v)>>

CornerVN(v, vn) == <<IntTok(v), EmptyTok, IntTok(vn)>>

CornerBad(v) == <<IntTok(v), BadTok>>

TemplateFaceLines ==
    {ObjLine("f", <<CornerVT(1, 1), CornerVT(2, 2), CornerVT(3, 3)>>),
     ObjLine("f", <<CornerVTN(1, 3, 1), CornerVTN(3, 2, 3), CornerVTN(2, 1, 2)>>),
     ObjLine("f", <<CornerV(1), CornerV(2), CornerV(3)>>),
     ObjLine("f", <<CornerVT(1, 1), CornerVN(2, 2), CornerVT(3, 3)>>),
     ObjLine("f", <<CornerVT(1, 2), CornerBad(2), CornerVT(3, 3)>>),
     ObjLine("f", <<CornerVT(1, 2), CornerVT(2, 3), CornerVT(3, 1), CornerVT(1, 3)>>),
     ObjLine("f", <<CornerVT(1, 1), CornerVT(2, 2)>>)}

PoolSizes == {0, 3}

TemplateObj(isfile, readable, lines) ==
    [isfile |-> isfile, readable |-> readable, lines |-> lines]

TemplateLines(vcount, pool, faceLines) ==
    ObjVLines(vcount) \o ObjJunkLines \o ObjVtLines(pool) \o faceLines

\* every UV-template argument tried when the container has no UV
AllTemplates(V) ==
    {None, Some(TemplateObj(FALSE, FALSE, <<>>)), Some(TemplateObj(TRUE, FALSE, <<>>))}
    \cup {Some(TemplateObj(TRUE, TRUE, TemplateLines(vc, pool, fl))) :
            vc \in {V, V + 1}, pool \in PoolSizes,
            fl \in SeqsUpTo(TemplateFaceLines, MaxTemplateFaces)}

\* templates whose every face line carries UV, tried beside an embedded UV
UvBearingFaceLines == {l \in TemplateFaceLines : FaceKept(l)}

SomeTemplates(V) ==
    {None}
    \cup {Some(TemplateObj(TRUE, TRUE, TemplateLines(V, 3, fl))) :
            fl \in SeqsUpTo(UvBearingFaceLines, MaxTemplateFaces)}

AbsentFile == [exists |-> FALSE, writer |-> "none", lines |-> <<>>]

OldFile == [exists |-> TRUE, writer |-> "earlier_run", lines |-> <<>>]

CoeffValues == {-1, 0, 2}

\* a coefficient argument: absent, or a list of up to MaxCoeffLen numbers
CoeffArgs == {None} \cup {Some(c) : c \in SeqsUpTo(CoeffValues, MaxCoeffLen)}

\* the JSON object of a config file
ConfigJson(model, uv_template, num_shape, num_expr, shape_coeffs, expr_coeffs, drop) ==
    Entry("flame_model_path", IF drop = "flame_model_path" THEN None ELSE Some(model))
    @@ Entry("out_obj_path", IF drop = "out_obj_path" THEN None ELSE Some("out.obj"))
    @@ Entry("uv_template_obj_path", uv_template)
    @@ Entry("num_shape", num_shape)
    @@ Entry("num_expr", num_expr)
    @@ Entry("shape_coeffs", shape_coeffs)
    @@ Entry("expr_coeffs", expr_coeffs)

GenerateInput(argc, isfile, json) ==
    [argv |-> [i \in 1..argc |-> IF i = 1 THEN "generate_flame_mesh.py" ELSE "config.json"],
     config |-> [isfile |-> isfile, json |-> json]]

Start(p, i, out) ==
    /\ prog = p
    /\ inp = i
    /\ outFile = out
    /\ pc = "start"
    /\ flame = NoFlame
    /\ eval = NoEval
    /\ dirCreated = FALSE
    /\ exitStatus = -1
    /\ err = "none"
    /\ printed = {}

\* runs that differ in the UV sources: embedded UV layout and UV template
InitUv ==
    \E V \in ModelSizes, uvVariant \in UvVariants :
      \E tmpl \in (IF uvVariant = "none" THEN AllTemplates(V) ELSE SomeTemplates(V)) :
        Start("generate_flame_mesh",
              GenerateInput(2, TRUE,
                  ConfigJson(ModelPath(TRUE, ".pkl",
                                 Container(V, 3, 2, "Vx3xN",
                                           IF V = 3 THEN "f" ELSE "faces",
                                           IF V = 3 THEN "uv" ELSE "vt",
                                           uvVariant, "none")),
                             tmpl, Some(1), Some(1), None, None, "none")),
              AbsentFile)

\* runs that differ in the slot counts and the coefficient vectors
InitEval ==
    \E ns \in {1, 2}, ne \in {0, 1, 2}, sc \in CoeffArgs, ec \in CoeffArgs,
       tmpl \in {None, Some(TemplateObj(FALSE, FALSE, <<>>))},
       out \in {AbsentFile, OldFile} :
        Start("generate_flame_mesh",
              GenerateInput(2, TRUE,
                  ConfigJson(ModelPath(TRUE, ".npz",
                                 Container(4, 3, 3, "Vx3xN", "triangles", "texcoords",
                                           "none", "none")),
                             tmpl, Some(ns), Some(ne), sc, ec, "none")),
              out)

\* runs that differ in what is missing or malformed
InitRun ==
    \E argc \in {1, 2}, cfgfile \in BOOLEAN,
       cfgdrop \in {"none", "flame_model_path", "out_obj_path"},
       slots \in {<<None, None>>, <<Some(1), Some(1)>>, <<Some(2), Some(1)>>},
       modelfile \in BOOLEAN, ext \in {".npz", ".pkl", ".obj"},
       layout \in ShapedirsLayouts,
       drop \in {"none", "v_template", "shapedirs", "faces"},
       cols \in {3, 2},
       sc \in {None, Some(<<2>>), Some(<<2, 0, 0>>)},
       out \in {AbsentFile, OldFile} :
        Start("generate_flame_mesh",
              GenerateInput(argc, cfgfile,
                  ConfigJson(ModelPath(modelfile, ext,
                                 Container(3, cols, 2, layout, "f", "uv", "Vx2", drop)),
                             None, slots[1], slots[2], sc, None, cfgdrop)),
              out)

\* the triangles of a V-vertex model with the last corner index replaced
IndexedFaces(V, last) ==
    IF V = 3 THEN Array(<<1, 3>>, << <<0, 1, last>> >>)
    ELSE Array(<<2, 3>>, << <<0, 1, 2>>, <<0, 2, last>> >>)

\* last-corner indices: the regular one, numpy's wrap-around ones (-1, -V)
\* and the two just outside the vertex axis
LastCornerIndices(V) == {V - 1, -1, -V, V, -V - 1}

\* face lines whose corners all carry an integer vt: inside the pool of
\* three, zero, negative, and larger than the pool
IndexFaceLines ==
    {ObjLine("f", <<CornerVT(1, 1), CornerVT(2, 2), CornerVT(3, 3)>>),
     ObjLine("f", <<CornerVT(1, 0), CornerVT(2, 2), CornerVT(3, 3)>>),
     ObjLine("f", <<CornerVT(1, 1), CornerVT(2, -1), CornerVT(3, 3)>>),
     ObjLine("f", <<CornerVTN(1, 3, 1), CornerVTN(2, 2, 2), CornerVTN(3, 4, 3)>>)}

\* runs that differ in the indices the inputs carry: the triangles of the
\* container and the vt references of the template's face lines
InitIndex ==
    \E V \in ModelSizes :
      \E last \in LastCornerIndices(V),
         tmpl \in {None}
                  \cup {Some(TemplateObj(TRUE, TRUE, TemplateLines(V, 3, fl))) :
                          fl \in SeqsUpTo(IndexFaceLines, MaxTemplateFaces)} :
        Start("generate_flame_mesh",
              GenerateInput(2, TRUE,
                  ConfigJson(ModelPath(TRUE, ".pkl",
                                 [Container(V, 3, 2, "Vx3xN", "f", "uv", "none", "none")
                                    EXCEPT !["f"] = IndexedFaces(V, last)]),
                             tmpl, Some(1), Some(1), None, None, "none")),
              AbsentFile)

LandmarkCount == 2

BaryLayouts == {"Lx3", "Lx2", "L1x3"}

BaryCoords(layout) ==
    IF layout = "Lx3"
    THEN Array(<<LandmarkCount, 3>>, [i \in 1..LandmarkCount |-> <<i, 1, 0>>])
    ELSE IF layout = "Lx2"
    THEN Array(<<LandmarkCount, 2>>, [i \in 1..LandmarkCount |-> <<i, 1>>])
    ELSE Array(<<LandmarkCount + 1, 3>>, [i \in 1..(LandmarkCount + 1) |-> <<i, 1, 0>>])

IndexArray(base) == Array(<<LandmarkCount>>, [i \in 1..LandmarkCount |-> base + i])

\* runs of dump_mediapipe_embedding_to_json
InitDump ==
    \E argc \in 1..3, isfile \in BOOLEAN, keys \in SUBSET {1, 2, 3},
       layout \in BaryLayouts, out \in {AbsentFile, OldFile} :
        Start("dump_mediapipe_embedding_to_json",
              [argv |-> [i \in 1..argc |-> <<"dump.py", "in.npz", "out.json">>[i]],
               npz |-> [isfile |-> isfile,
                        data |-> Entry("lmk_face_idx",
                                       IF 1 \in keys THEN Some(IndexArray(0)) ELSE None)
                                 @@ Entry("lmk_b_coords",
                                          IF 2 \in keys THEN Some(BaryCoords(layout)) ELSE None)
                                 @@ Entry("landmark_indices",
                                          IF 3 \in keys THEN Some(IndexArray(100)) ELSE None)]],
              out)

\* runs of export_flame_landmarks_to_json (it takes no arguments)
InitLandmarks ==
    \E isfile \in BOOLEAN, keys \in SUBSET (1..Len(LandmarkKeys)),
       out \in {AbsentFile, OldFile} :
        Start("export_flame_landmarks_to_json",
              [argv |-> <<"export_flame_landmarks_to_json.py">>,
               npy |-> [isfile |-> isfile,
                        data |-> [k \in {LandmarkKeys[i] : i \in keys} |-> IndexArray(0)]]],
              out)

Init == InitUv \/ InitEval \/ InitRun \/ InitIndex \/ InitDump \/ InitLandmarks

Next ==
    \/ GenerateMain
    \/ Construct
    \/ ExportEvaluate
    \/ ExportWrite
    \/ DumpMediapipeMain
    \/ ExportLandmarksMain

Spec == Init /\ [][Next]_vars

\* ------------------------------------------------------------ observations
\* What the properties below read off a run of generate_flame_mesh.

IsGenerate == prog = "generate_flame_mesh"

\* main got as far as calling SimpleFLAME(...)
Configured == IsGenerate /\ ConfigError(inp.argv, inp.config) = "none"

Cfg == inp.config.json

\* SimpleFLAME(...) returned an object
Constructed == Configured /\ pc \in {"constructed", "evaluated", "done"}

TemplateSupplied == Has(Cfg, "uv_template_obj_path")

TemplateFile == Cfg["uv_template_obj_path"]

ModelV == flame.v_template.shape[1]

ModelF == flame.faces.shape[1]

\* the output file is as it was before the run
OutputUntouched == outFile.writer \in {"none", "earlier_run"}

OutLinesOfKind(k) ==
    LET isKind(l) == l.kind = k
    IN  SelectSeq(outFile.lines, isKind)

\* an OBJ was written by this run
ObjWritten == IsGenerate /\ outFile.writer = "export_obj"

\* no "vt" line, and every face corner is v//vn
WrittenWithoutUv ==
    /\ Len(OutLinesOfKind("vt")) = 0
    /\ \A t \in 1..Len(OutLinesOfKind("f")) : \A k \in 1..3 :
          IsNone(OutLinesOfKind("f")[t].c[k].vt)

\* a template face line with at least three corners, each with an integer vt
FaceLineBearsUv(line) ==
    /\ Len(line.toks) >= 3
    /\ \A c \in 1..Len(line.toks) :
          Len(line.toks[c]) >= 2 /\ line.toks[c][2].kind = "int"

TemplateFLines == SelectSeq(TemplateFile.lines, IsFLine)

TemplateUvFaceCount == Len(SelectSeq(TemplateFLines, FaceLineBearsUv))

TemplatePoolSize == Len(SelectSeq(TemplateFile.lines, IsVtLine))

\* the resolver read the template file (it was asked to, and could)
TemplateRead ==
    /\ Constructed
    /\ IsNone(flame.uvs)
    /\ TemplateSupplied
    /\ TemplateFile.isfile
    /\ TemplateFile.readable

TemplateUvStored == ~IsNone(flame.vt_coords) /\ ~IsNone(flame.face_vt_indices)

TemplateUvUnset == IsNone(flame.vt_coords) /\ IsNone(flame.face_vt_indices)

\* ------------------------------------------------------------------ C1

\* C1: when the container holds a usable embedded UV array and a UV-template
\* path is supplied as well, the vt lines of the written OBJ are the embedded
\* per-vertex UVs (one per vertex, in vertex order) and every face corner is
\* vertex/vertex/normal; nothing of the template is stored or written.
C1_EmbeddedUvHasPriority ==
    (Constructed /\ TemplateSupplied /\ ~IsNone(flame.uvs)) =>
        /\ TemplateUvUnset
        /\ ObjWritten =>
             /\ Len(OutLinesOfKind("vt")) = ModelV
             /\ \A i \in 1..ModelV :
                   OutLinesOfKind("vt")[i].c = Get(flame.uvs).el[i]
             /\ \A t \in 1..ModelF : \A k \in 1..3 :
                   LET corner == OutLinesOfKind("f")[t].c[k]
                   IN  corner.vt = Some(corner.v) /\ corner.vn = corner.v

\* C1 witness: an OBJ written from a container with embedded UV while a
\* template that would resolve on its own (UV pool, one UV-bearing face per
\* model triangle) was supplied.
C1_Witness ==
    /\ ObjWritten
    /\ TemplateSupplied
    /\ ~IsNone(flame.uvs)
    /\ TemplateFile.isfile /\ TemplateFile.readable
    /\ TemplatePoolSize > 0
    /\ TemplateUvFaceCount = ModelF

\* ------------------------------------------------------------------ C2

\* "v" lines of the template with three numbers
TemplateVCount ==
    LET isV(l) == l.tag = "v" /\ Len(l.toks) >= 3
                  /\ l.toks[1].kind = "num" /\ l.toks[2].kind = "num"
                  /\ l.toks[3].kind = "num"
    IN  Len(SelectSeq(TemplateFile.lines, isV))

\* C2 as stated: whenever the template's vertex count differs from the
\* model's, or its face count differs from the model's triangle count, the
\* resolver leaves vt_coords and face_vt_indices unset.
C2_AnyCountMismatchFails ==
    TemplateRead =>
        ((TemplateVCount # ModelV \/ Len(TemplateFLines) # ModelF) => TemplateUvUnset)

\* C2 amended: whenever the number of template face lines that carry UV
\* (three or more corners, each with an integer vt) differs from the model's
\* triangle count, the resolver leaves vt_coords and face_vt_indices unset and
\* the OBJ is written without UV; a vertex-count mismatch is only reported as a
\* warning and by itself does not stop the template UV from being stored.
C2_FaceCountMismatchFails ==
    TemplateRead =>
        /\ TemplateUvFaceCount # ModelF =>
              TemplateUvUnset /\ (ObjWritten => WrittenWithoutUv)
        /\ TemplateVCount # ModelV => "uv_vertex_count_warning" \in printed
        /\ (TemplateVCount # ModelV /\ TemplatePoolSize > 0
              /\ TemplateUvFaceCount = ModelF) => TemplateUvStored

\* C2 witness: an OBJ written after the resolver read a template with a UV
\* pool whose UV-bearing face count differs from the model's triangle count.
C2_Witness ==
    /\ TemplateRead
    /\ ObjWritten
    /\ TemplatePoolSize > 0
    /\ TemplateUvFaceCount # ModelF
    /\ TemplateUvFaceCount > 0

\* ------------------------------------------------------------------ C3

\* C3 as stated: template UV is stored only if the template has exactly as
\* many face lines as the model has triangles and every face line has three
\* valid UV corner references, the i-th stored index triple being that of the
\* i-th face line.
C3_EveryFaceLinePairedPositionally ==
    (TemplateRead /\ TemplateUvStored) =>
        /\ Len(TemplateFLines) = ModelF
        /\ \A i \in 1..Len(TemplateFLines) : FaceLineBearsUv(TemplateFLines[i])
        /\ \A i \in 1..ModelF : \A k \in 1..3 :
              Get(flame.face_vt_indices)[i][k] = TemplateFLines[i].toks[k][2].val - 1

\* ------------------------------------------------------------------ C4

TemplateUnusable ==
    \/ ~TemplateFile.isfile
    \/ ~TemplateFile.readable
    \/ TemplatePoolSize = 0
    \/ TemplateUvFaceCount # ModelF

\* errors of a run that do not come from the UV template
NonTemplateErrors ==
    {"FileNotFoundError", "ValueError_format", "KeyError_v_template",
     "KeyError_shapedirs", "KeyError_faces", "ValueError_shapedirs",
     "ValueError_budget", "ValueError_shape_length", "ValueError_expr_length",
     "ValueError_broadcast", "IndexError", "IndexError_write"}

\* C4: with no usable embedded UV and a supplied template that is missing,
\* unreadable, without UV pool, or whose UV-bearing face count differs from the
\* model's triangle count, construction returns an object without template UV
\* and the written OBJ has no vt line and only vertex//normal corners; a run
\* given a template fails only with an error that does not come from it.
C4_UnusableTemplateFallsBackToNoUv ==
    /\ (Constructed /\ IsNone(flame.uvs) /\ TemplateSupplied /\ TemplateUnusable) =>
          /\ TemplateUvUnset
          /\ "no_uv" \in printed
          /\ ObjWritten => (WrittenWithoutUv /\ pc = "done" /\ exitStatus = 0)
    /\ (Configured /\ TemplateSupplied /\ pc = "failed") => err \in NonTemplateErrors

\* C4 witness: an OBJ written after a template with an empty UV pool, but one
\* UV-bearing face per model triangle, was read.
C4_Witness ==
    /\ TemplateRead
    /\ ObjWritten
    /\ TemplatePoolSize = 0
    /\ TemplateUvFaceCount = ModelF

\* ------------------------------------------------------------------ C5

InputModel == Cfg["flame_model_path"]

\* the loader got as far as its shapedirs test
ShapedirsTested ==
    /\ Configured
    /\ pc \notin {"start", "configured"}
    /\ InputModel.isfile
    /\ InputModel.ext \in {".npz", ".pkl"}
    /\ Has(InputModel.data, "v_template")
    /\ Has(InputModel.data, "shapedirs")
    /\ \E k \in {"f", "faces", "triangles"} : Has(InputModel.data, k)

InputShapedirs == InputModel.data["shapedirs"]

ShapedirsRejected == pc = "failed" /\ err = "ValueError_shapedirs"

\* C5 as stated: a flattened 2-D shapedirs of shape [V*3, N] is accepted
\* (reshaped to [V,3,N]) and is not a fatal error.
C5_FlattenedShapedirsAccepted ==
    (/\ ShapedirsTested
     /\ Len(InputShapedirs.shape) = 2
     /\ InputShapedirs.shape[1] = 3 * InputModel.data["v_template"].shape[1])
        => ~ShapedirsRejected

\* C5 amended: the loader accepts shapedirs only as a 3-D array [V,3,N]; an
\* array of any other rank, the flattened 2-D [V*3, N] included, or a 3-D array
\* whose middle axis is not 3, is the fatal shapedirs error; an accepted
\* array is kept as given.
C5_OnlyRank3ShapedirsAccepted ==
    ShapedirsTested =>
        /\ ShapedirsRejected <=>
              ~(Len(InputShapedirs.shape) = 3 /\ InputShapedirs.shape[2] = 3)
        /\ Constructed => flame.shapedirs = InputShapedirs

\* C5 witness: a run stopped by the shapedirs error on a flattened [V*3, N].
C5_Witness ==
    /\ ShapedirsTested
    /\ Len(InputShapedirs.shape) = 2
    /\ InputShapedirs.shape[1] = 3 * InputModel.data["v_template"].shape[1]
    /\ ShapedirsRejected

\* ------------------------------------------------------------------ C6

ShapeCoeffs == IF Has(Cfg, "shape_coeffs") THEN Cfg["shape_coeffs"] ELSE <<>>

ExprCoeffs == IF Has(Cfg, "expr_coeffs") THEN Cfg["expr_coeffs"] ELSE <<>>

\* SimpleFLAME(...) returned and export_obj was called with an over-long vector
OverLongCoeffs ==
    /\ Configured
    /\ flame # NoFlame
    /\ Len(ShapeCoeffs) > flame.num_shape \/ Len(ExprCoeffs) > flame.num_expr

LengthErrors == {"ValueError_shape_length", "ValueError_expr_length"}

\* C6: a shape vector longer than num_shape or an expression vector longer
\* than num_expr never gets past evaluation: the run ends with a length error
\* and exit status 1, whatever the values, with no directory created and the
\* output file neither created nor overwritten.
C6_OverLongCoeffsFailBeforeOutput ==
    OverLongCoeffs =>
        /\ pc \in {"constructed", "failed"}
        /\ OutputUntouched
        /\ ~dirCreated
        /\ pc = "failed" => (err \in LengthErrors /\ exitStatus = 1)

\* C6 witness: an all-zero over-long shape vector stopped the run while an
\* output file of an earlier run was in place.
C6_Witness ==
    /\ OverLongCoeffs
    /\ Len(ShapeCoeffs) > flame.num_shape
    /\ \A j \in 1..Len(ShapeCoeffs) : ShapeCoeffs[j] = 0
    /\ pc = "failed"
    /\ err = "ValueError_shape_length"
    /\ outFile = OldFile

\* ------------------------------------------------------------------ C7

\* betas[j] (0-based j) as the claim gives it
ExpectedBeta(j) ==
    IF j < Len(ShapeCoeffs) THEN ShapeCoeffs[j + 1]
    ELSE IF j >= flame.num_shape /\ j - flame.num_shape < Len(ExprCoeffs)
    THEN ExprCoeffs[j - flame.num_shape + 1]
    ELSE 0

RECURSIVE ExpectedBlend(_, _, _)
\* sum over k in [0, n) of basis[i, a, k] * betas[k]
ExpectedBlend(i, a, n) ==
    IF n = 0 THEN 0
    ELSE ExpectedBlend(i, a, n - 1) + flame.shapedirs.el[i][a][n] * ExpectedBeta(n - 1)

Evaluated == Configured /\ pc \in {"evaluated", "done"}

\* C7: for accepted coefficient vectors every returned vertex component is
\* template[i,a] + sum_k basis[i,a,k] * betas[k], betas being the zero-padded
\* shape block at slot 0 and expression block at slot num_shape; with all
\* coefficients zero the result is the template itself.
C7_VerticesAreTemplatePlusBlend ==
    Evaluated =>
        /\ eval.vertices.shape = flame.v_template.shape
        /\ \A i \in 1..ModelV : \A a \in 1..flame.v_template.shape[2] :
              eval.vertices.el[i][a] =
                 flame.v_template.el[i][a]
                   + ExpectedBlend(i, a, flame.num_shape_total)
        /\ ((\A j \in 1..Len(ShapeCoeffs) : ShapeCoeffs[j] = 0)
              /\ (\A j \in 1..Len(ExprCoeffs) : ExprCoeffs[j] = 0))
             => eval.vertices = flame.v_template

\* C7 witness: vertices evaluated from a shape vector shorter than num_shape
\* and a non-zero expression vector, and moved off the template.
C7_Witness ==
    /\ Evaluated
    /\ Len(ShapeCoeffs) = 1 /\ flame.num_shape = 2 /\ ShapeCoeffs[1] # 0
    /\ Len(ExprCoeffs) = 1 /\ ExprCoeffs[1] # 0
    /\ eval.vertices # flame.v_template

\* ------------------------------------------------------------------ C8

ListedFatalErrors ==
    {"usage", "config_not_found", "KeyError_flame_model_path", "KeyError_out_obj_path",
     "FileNotFoundError", "ValueError_format", "KeyError_v_template",
     "KeyError_shapedirs", "KeyError_faces", "ValueError_shapedirs",
     "ValueError_budget", "ValueError_shape_length", "ValueError_expr_length"}

\* C8 as stated: a run of generate_flame_mesh that ends in one of the listed
\* fatal errors has neither created nor modified the output OBJ, and an OBJ
\* written by the run exists only when it is complete: all V v lines, V vn
\* lines and F f lines.
C8_AllOrNothingOutput ==
    IsGenerate =>
        /\ (pc = "failed" /\ err \in ListedFatalErrors) =>
              (OutputUntouched /\ exitStatus = 1)
        /\ ObjWritten =>
              /\ Len(OutLinesOfKind("v")) = ModelV
              /\ Len(OutLinesOfKind("vn")) = ModelV
              /\ Len(OutLinesOfKind("f")) = ModelF

\* ------------------------------------------------------------------ C9

\* the utility's required input file is missing, or it got too few arguments
InputMissing ==
    IF prog = "generate_flame_mesh" THEN Len(inp.argv) < 2 \/ ~inp.config.isfile
    ELSE IF prog = "dump_mediapipe_embedding_to_json"
    THEN Len(inp.argv) < 3 \/ ~inp.npz.isfile
    ELSE ~inp.npy.isfile

\* C9 as stated: a utility whose required input file is missing or that got
\* too few arguments prints a message and ends with a non-zero exit status,
\* without writing an output file.
C9_MissingInputExitsNonZero ==
    (pc \in {"done", "failed"} /\ InputMissing) =>
        /\ printed # {}
        /\ OutputUntouched
        /\ exitStatus # 0

\* ------------------------------------------------------------------ C10

TemplateVtLines == SelectSeq(TemplateFile.lines, IsVtLine)

TemplateUvFaceLines == SelectSeq(TemplateFLines, FaceLineBearsUv)

\* model vertices that no UV-bearing corner of the template references
UnreferencedVertices == {v \in 1..ModelV : UvHits(TemplateFile.lines, v) = 0}

ExportFinished == ObjWritten /\ pc = "done"

\* position of a line kind in the serialization order
KindRank(k) == IF k = "v" THEN 1 ELSE IF k = "vt" THEN 2 ELSE IF k = "vn" THEN 3 ELSE 4

\* a UV source is set on the object: embedded per-vertex or template per-corner
UvActive == ~IsNone(flame.uvs) \/ TemplateUvStored

\* C11: in every OBJ that export_obj finished writing the line kinds come in
\* the order v, vt, vn, f (no line of an earlier kind follows a line of a later
\* kind), vt lines are there only when a UV variant is active, and there are
\* exactly V "v" lines, V "vn" lines and F "f" lines.
C11_LineKindsInFixedOrder ==
    ExportFinished =>
        /\ \A i \in 1..Len(outFile.lines) : \A j \in i..Len(outFile.lines) :
              KindRank(outFile.lines[i].kind) <= KindRank(outFile.lines[j].kind)
        /\ \A i \in 1..Len(outFile.lines) :
              outFile.lines[i].kind \in {"v", "vt", "vn", "f"}
        /\ (Len(OutLinesOfKind("vt")) > 0 => UvActive)
        /\ Len(OutLinesOfKind("v")) = ModelV
        /\ Len(OutLinesOfKind("vn")) = ModelV
        /\ Len(OutLinesOfKind("f")) = ModelF

\* a finished OBJ with UV lines between its positions and its normals and
\* with two triangles
C11_Witness ==
    /\ ExportFinished
    /\ Len(OutLinesOfKind("vt")) > 0
    /\ ModelF = 2
    /\ TemplateUvStored

\* ------------------------------------------------------------------ C12

\* the UV variant of the constructed object, read off its fields
ActiveVariant ==
    IF TemplateUvStored THEN "per_face_vertex"
    ELSE IF ~IsNone(flame.uvs) THEN "per_vertex"
    ELSE "none"

\* the face-corner format a written corner has
CornerFormat(corner) ==
    IF IsNone(corner.vt) THEN "v//vn"
    ELSE IF Get(corner.vt) = corner.v THEN "v/v/vn"
    ELSE "v/vt/vn"

\* C12: for model triangle t with 0-based corner vertex c a finished OBJ has
\* the corner (c+1)//(c+1) when no UV is active, (c+1)/(c+1)/(c+1) when the
\* per-vertex UV is active and (c+1)/(u+1)/(c+1) when the per-face-vertex UV
\* is active, u being the 0-based pool index stored for that corner of the
\* t-th face (u+1 is the vt index the t-th UV-bearing face line of the
\* template has at that corner); one variant decides the format of every face
\* of the file, and the vt lines are those of the same variant: none, one per
\* vertex, or one per pool entry.
C12_FaceFormatFollowsUvVariant ==
    ExportFinished =>
        LET fl == OutLinesOfKind("f")
            vt == OutLinesOfKind("vt")
        IN  /\ Len(fl) = ModelF
            /\ \A t \in 1..ModelF : \A k \in 1..3 :
                  LET c == flame.faces.el[t][k]
                  IN  fl[t].c[k] =
                        IF ActiveVariant = "none" THEN Corner(c + 1, None, c + 1)
                        ELSE IF ActiveVariant = "per_vertex"
                        THEN Corner(c + 1, Some(c + 1), c + 1)
                        ELSE Corner(c + 1,
                                    Some(Get(flame.face_vt_indices)[t][k] + 1),
                                    c + 1)
            /\ ActiveVariant = "per_face_vertex" =>
                  /\ \A t \in 1..ModelF : \A k \in 1..3 :
                        Get(fl[t].c[k].vt) = TemplateUvFaceLines[t].toks[k][2].val
                  /\ Len(vt) = Len(Get(flame.vt_coords))
            /\ ActiveVariant = "per_vertex" =>
                  /\ Len(vt) = ModelV
                  /\ \A i \in 1..ModelV : vt[i].c = Get(flame.uvs).el[i]
            /\ ActiveVariant = "none" => Len(vt) = 0

\* a finished OBJ in the per-face-vertex variant with a corner whose UV index
\* differs from its vertex index
C12_Witness ==
    /\ ExportFinished
    /\ ActiveVariant = "per_face_vertex"
    /\ \E t \in 1..Len(OutLinesOfKind("f")) : \E k \in 1..3 :
          CornerFormat(OutLinesOfKind("f")[t].c[k]) = "v/vt/vn"

\* ------------------------------------------------------------------ C13

\* an index of a face line points at an existing line of the given kind
RefersToLine(index, k) == index >= 1 /\ index <= Len(OutLinesOfKind(k))

\* C13 as stated: every index written in a face line of a finished OBJ refers
\* to a line of the same file: the vertex and normal index lie in [1, V] and
\* a UV index lies in [1, VT], VT being the number of vt lines written,
\* whatever vt indices (zero, negative, beyond the pool) the accepted template
\* carried.
C13_FaceIndicesReferToWrittenLines ==
    ExportFinished =>
        \A t \in 1..Len(OutLinesOfKind("f")) : \A k \in 1..3 :
            LET corner == OutLinesOfKind("f")[t].c[k]
            IN  /\ RefersToLine(corner.v, "v")
                /\ RefersToLine(corner.vn, "vn")
                /\ ~IsNone(corner.vt) => RefersToLine(Get(corner.vt), "vt")

====
